---- MODULE Spec2Model ----
(***************************************************************************)
(* Gas-network simulation engine (simulator/services/simulation_engine.py  *)
(* and the command surface of simulator/views.py).                         *)
(*                                                                         *)
(* Units.  Python floats are modelled on integer grids:                    *)
(*   valve positions      milli-percent   (100.0 %  = 100000)              *)
(*   pressures            deci-bar        (45.0 bar = 450)                 *)
(*   flows                whole units     (1000 m3/h)                      *)
(*   compressor speeds    RPM                                              *)
(*   times                seconds                                          *)
(* The database is the set of variables runs, valves, compressors, node;   *)
(* a model object held by a thread is a copy of its row, and save() writes *)
(* every field of the copy back (Django's Model.save without               *)
(* update_fields).                                                         *)
(***************************************************************************)
EXTENDS Integers, Sequences, FiniteSets, TLC

\* ------------------------------------------------------------------ bounds
MaxRuns == 2          \* start requests accepted by the model
MaxScans == 2         \* scans executed by one PLCSimulator object

\* ------------------------------------------------------- program constants
PosMax == 100000              \* min(100.0, .) in _update_valves
PosDefault == 50000           \* 'position': 50.0 in _initialize_valves
PosHysteresis == 100          \* abs(valve.position - new_position) > 0.1
NoOverride == -1000           \* set_position = -1.0, in milli-percent
MaxDurationAllowed == 3600    \* views.start_simulation: duration > 3600
MaxTimeStepAllowed == 60      \* views.start_simulation: time_step > 60
StartPressure == 450          \* compressor_start_pressure = 45.0
StopPressure == 550           \* compressor_stop_pressure = 55.0
HighSpeed == 10000            \* speed = 10000.0, the AUTO start command
SpeedChangeRate == 1000       \* speed_change_rate = 1000.0
SpeedHysteresis == 100        \* abs(new_speed - compressor.speed) > 100
AutoSpeed == -1               \* set_speed = -1.0

\* ------------------------------------------------------------ input sets
Durations == {0, 1, 3}                \* requested duration, seconds
TimeSteps == {0, 2}                   \* requested time_step, seconds
RequestedPressures == {400, 900}      \* control_node set_pressure, deci-bar
RequestedFlows == {80, -5}            \* control_node set_flow
PressureNoise == {0, 1}               \* random.gauss(0, 0.1) of a pressure sensor
FlowNoise == {0, 120}                 \* random.gauss(0, 2.0) of a flow sensor
PhysicsNoise == {0, 5}                \* random.gauss(0, 0.5) of _update_physics
ManualPositions == {62000, 100000}    \* accepted control_valve positions
RequestedPositions == ManualPositions \cup {150000}
Drifts == {-100, 0, 100}              \* random.uniform(-0.1, 0.1)
PlcTypes == {"PRESSURE_CONTROL", "FLOW_REGULATION", "COMPRESSOR_MANAGEMENT",
             "VALVE_CONTROL", "NONE"}
ValveIds == {"valve_p1"}
CompIds == {"COMP_source_3"}
MaxSpeeds == {3000, 12000}            \* Compressor.max_speed of the station
RequestedSpeeds == {2500, 20000}      \* control_compressor speed
\* The pressure limits of a node as the topology loader reads them: the
\* defaults 1.01325 and 81.01325 bar, or limits given in the network file.
PressureLimits == {[pressure_min |-> 10, pressure_max |-> 810],
                   [pressure_min |-> 390, pressure_max |-> 810]}

None == [none |-> TRUE]

\* An optional field of a request body: data.get(key) is None or a value.
Absent == [given |-> FALSE]
Some(x) == [given |-> TRUE, value |-> x]
Optional(S) == {Absent} \cup {Some(x) : x \in S}

Max(a, b) == IF a >= b THEN a ELSE b
Min(a, b) == IF a <= b THEN a ELSE b
Abs(a) == IF a >= 0 THEN a ELSE -a

VARIABLES
  clock,             \* int(time.time()), the source of run_id
  network,           \* the topology a run is started on (fixed after Init)
  running,           \* SimulationEngine.running
  simulation_thread, \* SimulationEngine.simulation_thread: 0 is None, else the thread's index
  runs,              \* table SimulationRun, in creation order
  threads,           \* the _simulation_loop threads, threads[i] runs runs[i]
  stop_request,      \* the views.stop_simulation request in flight
  node,              \* table Node: the pipe's from_node
  valves,            \* table Valve, by valve_id
  compressors,       \* table Compressor, by compressor_id
  alarms,            \* table PLCAlarm: the number of its rows
  start_response,    \* the last JsonResponse of views.start_simulation
  request,           \* the setpoint command in flight between its read and its save
  simulators         \* PLCSimulator objects and the scans they have executed

vars == <<clock, network, running, simulation_thread, runs, threads,
          stop_request, node, valves, compressors, alarms, start_response,
          request, simulators>>

\* ------------------------------------------------------- controller bank

\* max(0, min(100, x)) of the controllers and of _update_valves
ClampPosition(x) == Max(0, Min(PosMax, x))

\* PLCSimulator._pressure_control_logic: PID against node.set_pressure.
\* integral_error is kept in centi-bar, errors in deci-bar, so that
\* 1000 * (kp*e + ki*I + kd*d) = 100*e + I + 10*(e - last) in milli-percent.
pressure_control_logic(current_pressure, setpoint, integral_error, last_error) ==
  LET error == setpoint - current_pressure
      integral == integral_error + error
      derivative_error == error - last_error
      pid_output == 100 * error + integral + 10 * derivative_error
  IN [outputs |-> [CONTROL_VALVE_POSITION |-> ClampPosition(PosDefault + pid_output),
                   PRESSURE_IN_TOLERANCE |-> (Abs(error) <= 20),
                   PID_OUTPUT |-> pid_output],
      integral_error |-> integral,
      last_error |-> error]

\* PLCSimulator._flow_regulation_logic: proportional on node.set_flow.
flow_regulation_logic(current_flow, target_flow) ==
  LET flow_error == target_flow - current_flow
      valve_adjustment == 500 * flow_error
  IN [FLOW_CONTROL_VALVE |-> ClampPosition(PosDefault + valve_adjustment),
      FLOW_IN_RANGE |-> (Abs(flow_error) <= 10),
      FLOW_ERROR |-> flow_error]

\* PLCSimulator._compressor_management_logic; comp is the compressor of
\* the PLC's node, or None.
compressor_management_logic(pressure, comp) ==
  LET auto == comp # None /\ comp.set_command = "AUTO"
      command == IF auto
                 THEN IF pressure < StartPressure THEN "ON"
                      ELSE IF pressure > StopPressure THEN "OFF"
                      ELSE comp.status
                 ELSE IF comp # None THEN comp.set_command ELSE "OFF"
      speed == IF auto
               THEN IF pressure < StartPressure THEN HighSpeed
                    ELSE IF pressure > StopPressure THEN 0
                    ELSE comp.speed
               ELSE IF comp # None /\ comp.set_speed >= 0 THEN comp.set_speed ELSE 0
  IN [COMPRESSOR_COMMAND |-> command,
      COMPRESSOR_TARGET_SPEED |-> speed,
      SUCTION_VALVE |-> (command = "ON" \/ command = "RUNNING"),
      DISCHARGE_VALVE |-> (command = "ON" \/ command = "RUNNING")]

\* PLCSimulator._valve_control_logic: one output per valve bound to the PLC,
\* keyed by valve_id; walk is random.uniform(-1.0, 1.0).
valve_control_logic(vs, walk) ==
  [v \in DOMAIN vs |->
     IF vs[v].set_position < 0
     THEN ClampPosition(vs[v].position + walk)
     ELSE vs[v].set_position]

EmptyOutputs == [k \in {} |-> 0]      \* the dict {}

\* PLCSimulator.execute_scan, dispatched on plc_type.  _execute_plcs builds a
\* new PLCSimulator for every scan, so integral_error and last_error are 0.0
\* when _pressure_control_logic runs.
execute_scan(plc_type, sensor_data, nd, comps, vs, walk) ==
  CASE plc_type = "PRESSURE_CONTROL" ->
         pressure_control_logic(sensor_data.pressure, nd.set_pressure, 0, 0).outputs
    [] plc_type = "FLOW_REGULATION" ->
         flow_regulation_logic(sensor_data.flow, nd.set_flow)
    [] plc_type = "COMPRESSOR_MANAGEMENT" ->
         compressor_management_logic(
           sensor_data.pressure,
           IF DOMAIN comps = {} THEN None ELSE comps[CHOOSE c \in DOMAIN comps : TRUE])
    [] plc_type = "VALVE_CONTROL" -> valve_control_logic(vs, walk)
    [] OTHER -> EmptyOutputs

\* PLCSimulator._pressure_control_logic, line 74: the safety check that
\* raises the HIGH_PRESSURE alarm.
pressure_alarm(current_pressure, pressure_max) ==
  10 * current_pressure > 9 * pressure_max

\* _create_alarm with the except clause left out: a failure of
\* PLCAlarm.objects.create propagates to the caller.
create_alarm_propagating(sink_ok) ==
  [stored |-> sink_ok, logged |-> "", raised |-> ~sink_ok]

\* PLCSimulator._create_alarm: PLCAlarm.objects.create stores the alarm, or
\* fails (sink_ok = FALSE) and the failure is logged and dropped.
create_alarm(sink_ok) ==
  [stored |-> sink_ok,
   logged |-> IF sink_ok THEN "" ELSE "Error creating alarm",
   raised |-> FALSE]

\* One scan of _execute_plcs: execute_scan with its try/except.  An
\* exception of the controller's logic, the alarm call included, is logged
\* and answered with the empty outputs.
scan_plc(plc_type, sensor_data, nd, comps, vs, walk, sink_ok) ==
  LET alarm == IF plc_type = "PRESSURE_CONTROL"
                  /\ pressure_alarm(sensor_data.pressure, nd.pressure_max)
               THEN create_alarm(sink_ok)
               ELSE [stored |-> FALSE, logged |-> "", raised |-> FALSE]
  IN [outputs |-> IF alarm.raised THEN EmptyOutputs
                  ELSE execute_scan(plc_type, sensor_data, nd, comps, vs, walk),
      created |-> IF alarm.stored THEN 1 ELSE 0,
      called |-> plc_type = "PRESSURE_CONTROL"
                   /\ pressure_alarm(sensor_data.pressure, nd.pressure_max),
      logged |-> IF alarm.raised THEN "scan error" ELSE alarm.logged]

\* PLCSimulator.__init__, lines 21-24, with the scans the object has
\* executed since (what it was given and what it returned).
NewSimulator ==
  [integral_error |-> 0, last_error |-> 0, inputs |-> <<>>, outputs |-> <<>>]

\* "a" and "b" are two PLCSimulator objects of a pressure controller that
\* are kept across scans; "loop" stands for the objects of _execute_plcs.
SimulatorIds == {"a", "b", "loop"}

\* What one scan of a pressure controller is given: the sensor_data entry of
\* its node (sensor_data.get(key, 50.0) when it is missing) and the node's
\* set_pressure.
ScanInputs == {[reading |-> Some(409), setpoint |-> 410],
               [reading |-> Some(750), setpoint |-> 410],
               [reading |-> Absent, setpoint |-> 400]}

\* The pressure_max of the controller's node.
ScanPressureMax == 810

\* execute_scan with an alarm failure that empties the outputs.
simulator_scan_sink(sim, input, sink_ok) ==
  LET pressure == IF input.reading.given THEN input.reading.value ELSE 500
      logic == pressure_control_logic(pressure, input.setpoint,
                                      sim.integral_error, sim.last_error)
      failed == pressure_alarm(pressure, ScanPressureMax) /\ ~sink_ok
  IN [integral_error |-> logic.integral_error,
      last_error |-> logic.last_error,
      inputs |-> Append(sim.inputs, input),
      outputs |-> Append(sim.outputs, IF failed THEN EmptyOutputs ELSE logic.outputs)]

\* PLCSimulator.execute_scan of a PRESSURE_CONTROL controller on the object
\* sim: _pressure_control_logic updates integral_error and last_error,
\* raises its alarm and returns its outputs.
simulator_scan(sim, input, sink_ok) ==
  LET pressure == IF input.reading.given THEN input.reading.value ELSE 500
      logic == pressure_control_logic(pressure, input.setpoint,
                                      sim.integral_error, sim.last_error)
      alarm == IF pressure_alarm(pressure, ScanPressureMax)
               THEN create_alarm(sink_ok)
               ELSE [stored |-> FALSE, logged |-> "", raised |-> FALSE]
  IN [integral_error |-> logic.integral_error,
      last_error |-> logic.last_error,
      inputs |-> Append(sim.inputs, input),
      outputs |-> Append(sim.outputs,
                         IF alarm.raised THEN EmptyOutputs ELSE logic.outputs)]

\* ------------------------------------------------- actuator arbitration

\* The arbitration of _update_valves with the controller branch tested before
\* the manual branch.
resolve_valve_plc_first(valve, has_plc, plc_outputs, drift) ==
  LET pick ==
        IF has_plc /\ "CONTROL_VALVE_POSITION" \in DOMAIN plc_outputs
        THEN [new_position |-> plc_outputs["CONTROL_VALVE_POSITION"],
              control_source |-> "PLC (Pressure)"]
        ELSE IF has_plc /\ "FLOW_CONTROL_VALVE" \in DOMAIN plc_outputs
        THEN [new_position |-> plc_outputs["FLOW_CONTROL_VALVE"],
              control_source |-> "PLC (Flow)"]
        ELSE IF valve.set_position >= 0
        THEN [new_position |-> valve.set_position, control_source |-> "Manual"]
        ELSE IF has_plc
        THEN [new_position |-> valve.position, control_source |-> "No Control"]
        ELSE [new_position |-> valve.position + drift, control_source |-> "Default"]
  IN [new_position |-> ClampPosition(pick.new_position),
      raw_position |-> pick.new_position,
      control_source |-> pick.control_source]

\* The arbitration with a bound controller that put out no recognized key
\* answered by the default position.
resolve_valve_no_key_default(valve, has_plc, plc_outputs, drift) ==
  LET pick ==
        IF valve.set_position >= 0
        THEN [new_position |-> valve.set_position, control_source |-> "Manual"]
        ELSE IF has_plc
        THEN IF "CONTROL_VALVE_POSITION" \in DOMAIN plc_outputs
             THEN [new_position |-> plc_outputs["CONTROL_VALVE_POSITION"],
                   control_source |-> "PLC (Pressure)"]
             ELSE IF "FLOW_CONTROL_VALVE" \in DOMAIN plc_outputs
             THEN [new_position |-> plc_outputs["FLOW_CONTROL_VALVE"],
                   control_source |-> "PLC (Flow)"]
             ELSE [new_position |-> PosDefault, control_source |-> "No Control"]
        ELSE [new_position |-> valve.position + drift, control_source |-> "Default"]
  IN [new_position |-> ClampPosition(pick.new_position),
      raw_position |-> pick.new_position,
      control_source |-> pick.control_source]

\* SimulationEngine._update_valves, lines 658-687 for one valve row: the
\* resolved target before the limits (raw_position) and after them
\* (new_position), and its control source.
resolve_valve(valve, has_plc, plc_outputs, drift) ==
  LET pick ==
        IF valve.set_position >= 0
        THEN [new_position |-> valve.set_position, control_source |-> "Manual"]
        ELSE IF has_plc
        THEN IF "CONTROL_VALVE_POSITION" \in DOMAIN plc_outputs
             THEN [new_position |-> plc_outputs["CONTROL_VALVE_POSITION"],
                   control_source |-> "PLC (Pressure)"]
             ELSE IF "FLOW_CONTROL_VALVE" \in DOMAIN plc_outputs
             THEN [new_position |-> plc_outputs["FLOW_CONTROL_VALVE"],
                   control_source |-> "PLC (Flow)"]
             ELSE [new_position |-> valve.position, control_source |-> "No Control"]
        ELSE [new_position |-> valve.position + drift, control_source |-> "Default"]
  IN [new_position |-> ClampPosition(pick.new_position),
      raw_position |-> pick.new_position,
      control_source |-> pick.control_source]

\* The same arbitration with the "Apply limits and save" block reduced to an
\* unconditional save of the unclamped target.
update_valve_unclamped(valve, has_plc, plc_outputs, drift) ==
  LET pick ==
        IF valve.set_position >= 0 THEN valve.set_position
        ELSE IF has_plc
        THEN IF "CONTROL_VALVE_POSITION" \in DOMAIN plc_outputs
             THEN plc_outputs["CONTROL_VALVE_POSITION"]
             ELSE IF "FLOW_CONTROL_VALVE" \in DOMAIN plc_outputs
             THEN plc_outputs["FLOW_CONTROL_VALVE"]
             ELSE valve.position
        ELSE valve.position + drift
  IN [valve EXCEPT !.position = pick]

\* The write-back with >= in place of > in the test of line 687.
update_valve_inclusive(valve, has_plc, plc_outputs, drift) ==
  LET new_position == resolve_valve(valve, has_plc, plc_outputs, drift).new_position
  IN IF Abs(valve.position - new_position) >= PosHysteresis
     THEN [valve EXCEPT !.position = new_position]
     ELSE valve

\* The write-back of an actuator that travels half of the way to its target
\* in one step.
update_valve_half_way(valve, has_plc, plc_outputs, drift) ==
  LET new_position == resolve_valve(valve, has_plc, plc_outputs, drift).new_position
  IN IF Abs(valve.position - new_position) > PosHysteresis
     THEN [valve EXCEPT !.position =
             valve.position + (new_position - valve.position) \div 2]
     ELSE valve

\* SimulationEngine._update_valves, lines 687-692 for one valve row: the row
\* as the loop holds it after the step (saved only when position changed).
update_valve(valve, has_plc, plc_outputs, drift) ==
  LET new_position == resolve_valve(valve, has_plc, plc_outputs, drift).new_position
  IN IF Abs(valve.position - new_position) > PosHysteresis
     THEN [valve EXCEPT !.position = new_position]
     ELSE valve

\* The target resolution with the controller's output ahead of the manual
\* command.
update_compressor_plc_first(compressor, has_plc, plc_outputs) ==
  LET manual == compressor.set_command # "AUTO"
      target_status ==
        IF has_plc
        THEN IF "COMPRESSOR_COMMAND" \in DOMAIN plc_outputs
                /\ plc_outputs["COMPRESSOR_COMMAND"] = "ON"
             THEN "ON" ELSE "OFF"
        ELSE IF manual THEN compressor.set_command
        ELSE "OFF"
      target_speed ==
        IF has_plc
        THEN IF "COMPRESSOR_TARGET_SPEED" \in DOMAIN plc_outputs
             THEN plc_outputs["COMPRESSOR_TARGET_SPEED"] ELSE 0
        ELSE IF manual
        THEN IF compressor.set_speed >= 0 THEN compressor.set_speed ELSE 0
        ELSE 0
      control_source == IF has_plc THEN "PLC" ELSE IF manual THEN "Manual" ELSE "Default"
  IN [raised |-> "NameError",
      target_status |-> target_status,
      target_speed |-> target_speed,
      control_source |-> control_source,
      new_status |-> compressor.status,
      status |-> compressor.status,
      speed |-> compressor.speed,
      set_command |-> compressor.set_command]

\* SimulationEngine._update_compressors, lines 705-742 for one compressor row.
\* Line 742 reads simulation_run.time_step, and _update_compressors has no
\* parameter, local or module global named simulation_run: evaluating the
\* condition raises NameError, after the target and the state-machine edge
\* were computed into locals and before anything is written.
update_compressor(compressor, has_plc, plc_outputs) ==
  LET manual == compressor.set_command # "AUTO"
      target_status ==
        IF manual THEN compressor.set_command
        ELSE IF has_plc
        THEN IF "COMPRESSOR_COMMAND" \in DOMAIN plc_outputs
                /\ plc_outputs["COMPRESSOR_COMMAND"] = "ON"
             THEN "ON" ELSE "OFF"
        ELSE "OFF"
      target_speed ==
        IF manual
        THEN IF compressor.set_speed >= 0 THEN compressor.set_speed ELSE 0
        ELSE IF has_plc
        THEN IF "COMPRESSOR_TARGET_SPEED" \in DOMAIN plc_outputs
             THEN plc_outputs["COMPRESSOR_TARGET_SPEED"] ELSE 0
        ELSE 0
      control_source == IF manual THEN "Manual" ELSE IF has_plc THEN "PLC" ELSE "Default"
      new_status ==
        IF target_status = "ON" /\ compressor.status = "OFF" THEN "STARTING"
        ELSE IF target_status = "OFF" /\ compressor.status = "RUNNING" THEN "STOPPING"
        ELSE IF compressor.status = "STARTING"
                /\ 10 * compressor.speed >= 9 * target_speed /\ target_speed > 0
        THEN "RUNNING"
        ELSE IF compressor.status = "STOPPING"
                /\ 10 * compressor.speed <= compressor.max_speed
        THEN "OFF"
        ELSE compressor.status
  IN [raised |-> "NameError",
      target_status |-> target_status,
      target_speed |-> target_speed,
      control_source |-> control_source,
      new_status |-> new_status,
      status |-> compressor.status,
      speed |-> compressor.speed,
      set_command |-> compressor.set_command]

\* ---------------------------------------------------------------- state

Statuses == {"CREATED", "RUNNING", "COMPLETED", "FAILED", "STOPPED"}
Terminal == {"COMPLETED", "FAILED", "STOPPED"}
Stages == {"sensors", "plcs", "valves", "valves_save", "compressors", "physics", "write"}

EmptyTable == [k \in {} |-> None]

Alive(i) == threads[i].pc # "done"

\* GasLibParser._create_node for a source node: the pressure starts midway
\* between the limits, the flow at 0, the setpoints at the same values.
new_node(pressure_min, pressure_max) ==
  [pressure_min |-> pressure_min, pressure_max |-> pressure_max,
   flow_min |-> 0, flow_max |-> 10000,
   current_pressure |-> (pressure_min + pressure_max) \div 2, current_flow |-> 0,
   set_pressure |-> (pressure_min + pressure_max) \div 2, set_flow |-> 0]

\* The rows of the tables before any run was started: the topology loader
\* creates nodes and pipes only; sensors, PLCs, valves and compressors are
\* created by the first start_simulation.
InitTables ==
  /\ clock = 0
  /\ network \in [plc_type : PlcTypes, compressor_node : BOOLEAN, max_speed : MaxSpeeds]
  /\ network.compressor_node \/ network.max_speed = 3000
  /\ running = FALSE
  /\ simulation_thread = 0
  /\ runs = <<>>
  /\ threads = <<>>
  /\ stop_request = [pc |-> "idle", thread |-> 0]
  /\ valves = EmptyTable
  /\ compressors = EmptyTable
  /\ alarms = 0
  /\ start_response = None
  /\ request = None
  /\ simulators = [k \in SimulatorIds |-> NewSimulator]

Init ==
  /\ InitTables
  /\ \E lim \in PressureLimits : node = new_node(lim.pressure_min, lim.pressure_max)

\* time.time() passes a whole second.  The clock is read only for run_id, so
\* only a tick that frees the current run_id is taken.
Tick ==
  /\ \E i \in DOMAIN runs : runs[i].run_id = clock
  /\ clock' = clock + 1
  /\ UNCHANGED <<network, simulators, alarms, start_response, request, running,
                 simulation_thread, runs, threads, stop_request, node, valves,
                 compressors>>

\* --------------------------------------------------------- run lifecycle

\* SimulationEngine.start_simulation, line 257: run_id = "run_<second>" is
\* unique, so a second create in the same second raises IntegrityError,
\* which views.start_simulation answers with an error.
start_same_second(duration, time_step) ==
  /\ duration > 0 /\ duration <= MaxDurationAllowed
  /\ time_step > 0 /\ time_step <= MaxTimeStepAllowed
  /\ \E i \in DOMAIN runs : runs[i].run_id = clock
  /\ start_response' = [status |-> "error", message |-> "Error starting simulation"]
  /\ UNCHANGED <<clock, network, simulators, running, simulation_thread, runs, threads,
                 stop_request, node, valves, compressors, alarms, request>>

\* _initialize_sensors, lines 459-461: the node's setpoints are overwritten
\* with its current values.
initialize_sensors(nd) ==
  [nd EXCEPT !.set_pressure = nd.current_pressure, !.set_flow = nd.current_flow]

\* _initialize_valves: get_or_create of one valve per pipe.
initialize_valves(vs) ==
  [v \in ValveIds |->
     IF v \in DOMAIN vs THEN vs[v]
     ELSE [position |-> PosDefault, set_position |-> NoOverride]]

\* The defaults of _initialize_compressors with speed and set_speed swapped.
new_compressor_swapped(max_speed) ==
  [status |-> "OFF", speed |-> AutoSpeed, set_speed |-> 0,
   set_command |-> "AUTO", max_speed |-> max_speed]

\* _initialize_compressors, lines 514-524: the defaults of a new compressor.
new_compressor(max_speed) ==
  [status |-> "OFF", speed |-> 0, set_speed |-> AutoSpeed,
   set_command |-> "AUTO", max_speed |-> max_speed]

\* _initialize_compressors: get_or_create for the compressor-station nodes.
initialize_compressors(cs) ==
  IF network.compressor_node
  THEN [c \in CompIds |->
          IF c \in DOMAIN cs THEN cs[c] ELSE new_compressor(network.max_speed)]
  ELSE cs

\* A loop thread at line 299: its position, its locals, and what is known of
\* its history (whether and where a stop request hit it, the exception that
\* ended it and the locals of the frame that raised, what its scans and its
\* persistence writes logged).
NewThread(run) ==
  [pc |-> "cond", step |-> 0, simulation_run |-> run, stopped |-> "no", error |-> "",
   stopped_at |-> "", write_errors |-> 0,
   traceback |-> None, scan_log |-> None,
   sensor_data |-> None, plc_data |-> None, valve_rows |-> None,
   valve_data |-> None, compressor_data |-> None]

\* SimulationEngine.start_simulation: the run row, the components, the
\* thread, running = True.  No test of running or of an existing thread.
engine_start_simulation(duration, time_step) ==
  /\ Len(runs) < MaxRuns
  /\ \A i \in DOMAIN runs : runs[i].run_id # clock
  /\ LET run == [run_id |-> clock, status |-> "RUNNING", total_steps |-> 0,
                 duration |-> duration, time_step |-> time_step]
     IN /\ runs' = Append(runs, run)
        /\ threads' = Append(threads, NewThread(run))
  /\ node' = initialize_sensors(node)
  /\ valves' = initialize_valves(valves)
  /\ compressors' = initialize_compressors(compressors)
  /\ simulation_thread' = Len(threads) + 1
  /\ running' = TRUE
  /\ UNCHANGED <<clock, network, simulators, stop_request, alarms, request>>

\* views.start_simulation with the tests of lines 138-148 left out: the
\* engine is called with the parameters as they came.
start_unvalidated(duration, time_step) ==
  /\ \/ duration <= 0 \/ duration > MaxDurationAllowed
     \/ time_step <= 0 \/ time_step > MaxTimeStepAllowed
  /\ engine_start_simulation(duration, time_step)
  /\ start_response' = [status |-> "success", run_id |-> clock]

\* views.start_simulation, lines 138-148: the request is answered with an
\* error before the engine is called.
start_invalid(duration, time_step) ==
  /\ \/ duration <= 0 \/ duration > MaxDurationAllowed
     \/ time_step <= 0 \/ time_step > MaxTimeStepAllowed
  /\ start_response' =
       [status |-> "error",
        message |-> IF duration <= 0 \/ duration > MaxDurationAllowed
                    THEN "Duration must be between 1 and 3600 seconds"
                    ELSE "Time step must be between 0.1 and 60 seconds"]
  /\ UNCHANGED <<clock, network, simulators, running, simulation_thread, runs, threads,
                 stop_request, node, valves, compressors, alarms, request>>

\* views.start_simulation with valid parameters: the engine is called and
\* the request is answered with the run_id.
start_simulation(duration, time_step) ==
  /\ duration > 0 /\ duration <= MaxDurationAllowed
  /\ time_step > 0 /\ time_step <= MaxTimeStepAllowed
  /\ engine_start_simulation(duration, time_step)
  /\ start_response' = [status |-> "success", run_id |-> clock]

\* Thread i has at least one more step to run after the one it is in.
MidRun(i) ==
  (threads[i].step + 1) * threads[i].simulation_run.time_step
     < threads[i].simulation_run.duration

\* views.stop_simulation up to the join: SimulationEngine.stop_simulation
\* clears running and joins the thread it holds, if alive.
stop_begin ==
  /\ stop_request.pc = "idle"
  /\ running' = FALSE
  /\ threads' = [i \in DOMAIN threads |->
                   IF Alive(i) /\ threads[i].stopped # "mid-run"
                   THEN [threads[i] EXCEPT
                           !.stopped = IF MidRun(i) THEN "mid-run" ELSE "last-step",
                           !.stopped_at = IF threads[i].stopped_at = ""
                                          THEN threads[i].pc
                                          ELSE threads[i].stopped_at]
                   ELSE threads[i]]
  /\ stop_request' =
       IF simulation_thread # 0 /\ Alive(simulation_thread)
       THEN [pc |-> "join", thread |-> simulation_thread]
       ELSE [pc |-> "update", thread |-> 0]
  /\ UNCHANGED <<clock, network, simulators, alarms, start_response, request,
                 simulation_thread, runs, node, valves, compressors>>

\* join(timeout=5.0) returns because the thread ended.
stop_joined ==
  /\ stop_request.pc = "join"
  /\ ~Alive(stop_request.thread)
  /\ stop_request' = [pc |-> "update", thread |-> 0]
  /\ UNCHANGED <<clock, network, simulators, alarms, start_response, request,
                 running, simulation_thread, runs, threads,
                 node, valves, compressors>>

\* join(timeout=5.0) returns after 5 seconds with the thread still alive: a
\* step, or its pacing sleep of up to time_step <= 60 seconds, outlasts it.
stop_join_timeout ==
  /\ stop_request.pc = "join"
  /\ Alive(stop_request.thread)
  /\ stop_request' = [pc |-> "update", thread |-> 0]
  /\ UNCHANGED <<clock, network, simulators, alarms, start_response, request,
                 running, simulation_thread, runs, threads,
                 node, valves, compressors>>

\* views.stop_simulation, lines 190-191: every row still RUNNING in the table
\* is set to STOPPED.
stop_update ==
  /\ stop_request.pc = "update"
  /\ runs' = [i \in DOMAIN runs |->
                IF runs[i].status = "RUNNING"
                THEN [runs[i] EXCEPT !.status = "STOPPED"] ELSE runs[i]]
  /\ stop_request' = [pc |-> "idle", thread |-> 0]
  /\ UNCHANGED <<clock, network, simulators, alarms, start_response, request,
                 running, simulation_thread, threads,
                 node, valves, compressors>>

\* ------------------------------------------------------ _simulation_loop

Walks == {-1000, 1000}                \* random.uniform(-1.0, 1.0)

\* simulation_run.save() of thread i: every field of the object the thread
\* holds is written to its row.
Saved(i, obj) == [runs EXCEPT ![i] = obj]

\* The loop condition of line 303, as thread i evaluates it.
loop_condition(i) ==
  running /\ threads[i].step * threads[i].simulation_run.time_step
               < threads[i].simulation_run.duration

\* Lines 343-346 after the loop, or 352-355 in the except clause, then the
\* finally clause: the thread's end with the given status.
Finish(i, status, error, traceback) ==
  LET obj == [threads[i].simulation_run EXCEPT
                !.status = status, !.total_steps = threads[i].step]
  IN /\ runs' = Saved(i, obj)
     /\ threads' = [threads EXCEPT
          ![i].pc = "done", ![i].simulation_run = obj, ![i].error = error,
          ![i].traceback = traceback, ![i].scan_log = None,
          ![i].sensor_data = None, ![i].plc_data = None,
          ![i].valve_rows = None, ![i].valve_data = None]
     /\ running' = FALSE

\* _update_sensors: the readings of the node's pressure and flow sensors.
read_sensors(nd, pn, fn) ==
  [pressure |-> Max(0, nd.current_pressure + pn),
   flow |-> Max(0, nd.set_flow + fn)]

\* _update_valves over the rows read: the table after the saves.
save_valves(table, rows, has_plc, plc_data, drift) ==
  [v \in DOMAIN table |->
     IF v \in DOMAIN rows
        /\ update_valve(rows[v], has_plc, plc_data, drift) # rows[v]
     THEN update_valve(rows[v], has_plc, plc_data, drift)
     ELSE table[v]]

\* _update_valves: valve_data.  Beside the two fields the code records
\* (position, control_source) a record keeps the locals of the iteration:
\* the resolved target before and after the limits, and the set_position and
\* position of the row it was resolved from.
valve_records(rows, has_plc, plc_data, drift) ==
  [v \in DOMAIN rows |->
     [position |-> update_valve(rows[v], has_plc, plc_data, drift).position,
      control_source |-> resolve_valve(rows[v], has_plc, plc_data, drift).control_source,
      target |-> resolve_valve(rows[v], has_plc, plc_data, drift).new_position,
      raw_position |-> resolve_valve(rows[v], has_plc, plc_data, drift).raw_position,
      set_position |-> rows[v].set_position,
      position_before |-> rows[v].position]]

\* _update_compressors raises on its first row (see update_compressor).
compressors_raise(cs, has_plc, plc_data) ==
  \E c \in DOMAIN cs : update_compressor(cs[c], has_plc, plc_data).raised = "NameError"

\* The locals of _update_compressors when it raises: those of its first row,
\* with the pressure the step's sensors read.
compressors_traceback(cs, has_plc, plc_data, sensor_data) ==
  LET c == CHOOSE c \in DOMAIN cs : TRUE
      locals == update_compressor(cs[c], has_plc, plc_data)
  IN [compressor_id |-> c,
      pressure |-> sensor_data.pressure,
      status |-> locals.status,
      speed |-> locals.speed,
      set_command |-> locals.set_command,
      set_speed |-> cs[c].set_speed,
      max_speed |-> cs[c].max_speed,
      plc_outputs |-> plc_data,
      control_source |-> locals.control_source,
      target_status |-> locals.target_status,
      target_speed |-> locals.target_speed,
      new_status |-> locals.new_status]

\* _update_physics for the source node: pressure follows set_pressure, flow
\* follows set_flow when positive.
physics(nd, n) ==
  [nd EXCEPT !.current_pressure = nd.set_pressure + n,
             !.current_flow = IF nd.set_flow > 0 THEN nd.set_flow ELSE 100]

\* Line 303 holds: the next step begins.
loop_step(i) ==
  /\ threads[i].pc = "cond"
  /\ loop_condition(i)
  /\ threads' = [threads EXCEPT ![i].pc = "sensors"]
  /\ UNCHANGED <<clock, network, simulators, alarms, start_response, request,
                 running, simulation_thread, runs,
                 stop_request, node, valves, compressors>>

\* Line 303 fails, because running is False or the duration is reached.
loop_exit(i) ==
  /\ threads[i].pc = "cond"
  /\ ~loop_condition(i)
  /\ Finish(i, "COMPLETED", "", None)
  /\ UNCHANGED <<clock, network, simulators, alarms, start_response, request,
                 simulation_thread, stop_request, node,
                 valves, compressors>>

\* The except clause moved inside the while loop: the exception is logged
\* and the loop goes on with the next step.
step_error_retry(i) ==
  /\ \/ threads[i].pc = "cond" /\ loop_condition(i)
     \/ threads[i].pc \in Stages \ {"write"}
  /\ threads' = [threads EXCEPT ![i].pc = "sleep", ![i].error = "Exception"]
  /\ UNCHANGED <<clock, network, simulators, alarms, start_response, request, running,
                 simulation_thread, runs, stop_request, node, valves, compressors>>

\* An exception of the environment inside a step (a failed query or save),
\* here at the step's first statement or at a later stage.
step_error(i) ==
  /\ \/ threads[i].pc = "cond" /\ loop_condition(i)
     \/ threads[i].pc \in Stages \ {"write"}
  /\ Finish(i, "FAILED", "Exception", None)
  /\ UNCHANGED <<clock, network, simulators, alarms, start_response, request,
                 simulation_thread, stop_request, node,
                 valves, compressors>>

\* One whole iteration of the loop, lines 303-338, up to the pacing sleep:
\* sensors, PLC scans, valves, compressors, physics, persistence.
simulation_step(i) ==
  /\ threads[i].pc = "cond"
  /\ loop_condition(i)
  /\ \E pn \in PressureNoise, fn \in FlowNoise, walk \in Walks, drift \in Drifts,
        n \in PhysicsNoise, sink_ok \in BOOLEAN :
       LET sensor_data == read_sensors(node, pn, fn)
           scan == scan_plc(network.plc_type, sensor_data, node,
                            compressors, valves, walk, sink_ok)
           plc_data == scan.outputs
           has_plc == network.plc_type # "NONE"
       IN /\ alarms' = alarms + scan.created
          /\ valves' = save_valves(valves, valves, has_plc, plc_data, drift)
          /\ IF compressors_raise(compressors,
                                  network.plc_type = "COMPRESSOR_MANAGEMENT", plc_data)
             THEN /\ Finish(i, "FAILED", "NameError",
                            compressors_traceback(
                              compressors, network.plc_type = "COMPRESSOR_MANAGEMENT",
                              plc_data, sensor_data))
                  /\ node' = node
             ELSE /\ node' = physics(node, n)
                  /\ threads' = [threads EXCEPT ![i].pc = "sleep"]
                  /\ UNCHANGED <<runs, running>>
  /\ UNCHANGED <<clock, network, simulators, start_response, request,
                 simulation_thread, stop_request, compressors>>

\* _update_sensors.
update_sensors(i) ==
  /\ threads[i].pc = "sensors"
  /\ \E pn \in PressureNoise, fn \in FlowNoise :
       threads' = [threads EXCEPT
         ![i].pc = "plcs", ![i].sensor_data = read_sensors(node, pn, fn)]
  /\ UNCHANGED <<clock, network, simulators, alarms, start_response, request,
                 running, simulation_thread, runs,
                 stop_request, node, valves, compressors>>

\* _execute_plcs with a pressure controller that moves the valves itself.
execute_plcs_actuating(i) ==
  /\ threads[i].pc = "plcs"
  /\ \E walk \in Walks, sink_ok \in BOOLEAN :
       LET scan == scan_plc(network.plc_type, threads[i].sensor_data, node,
                            compressors, valves, walk, sink_ok)
       IN /\ threads' = [threads EXCEPT
               ![i].pc = "valves",
               ![i].plc_data = scan.outputs,
               ![i].scan_log = [called |-> scan.called, logged |-> scan.logged]]
          /\ alarms' = alarms + scan.created
          /\ valves' = IF "CONTROL_VALVE_POSITION" \in DOMAIN scan.outputs
                       THEN [v \in DOMAIN valves |->
                               [valves[v] EXCEPT
                                  !.position = scan.outputs["CONTROL_VALVE_POSITION"]]]
                       ELSE valves
  /\ UNCHANGED <<clock, network, simulators, start_response, request, running,
                 simulation_thread, runs, stop_request, node, compressors>>

\* _execute_plcs: the scan of the node's PLC, if it has one.
execute_plcs(i) ==
  /\ threads[i].pc = "plcs"
  /\ \E walk \in Walks, sink_ok \in BOOLEAN :
       LET scan == scan_plc(network.plc_type, threads[i].sensor_data, node,
                            compressors, valves, walk, sink_ok)
       IN /\ threads' = [threads EXCEPT
               ![i].pc = "valves",
               ![i].plc_data = scan.outputs,
               ![i].scan_log = [called |-> scan.called, logged |-> scan.logged]]
          /\ alarms' = alarms + scan.created
  /\ UNCHANGED <<clock, network, simulators, start_response, request, running,
                 simulation_thread, runs, stop_request, node, valves, compressors>>

\* _execute_plcs with the scan's except clause removed: the exception of the
\* controller's logic reaches the except clause of the loop.
execute_plcs_scan_propagates(i) ==
  /\ threads[i].pc = "plcs"
  /\ network.plc_type # "NONE"
  /\ Finish(i, "FAILED", "scan error", None)
  /\ UNCHANGED <<clock, network, simulators, alarms, start_response, request,
                 simulation_thread, stop_request, node, valves, compressors>>

\* _execute_plcs in a step where the controller's logic raises (a query of
\* the logic fails): the except clause of execute_scan, lines 48-50, logs
\* the scan error and returns {}, which is stored as the PLC's outputs.
execute_plcs_scan_error(i) ==
  /\ threads[i].pc = "plcs"
  /\ network.plc_type # "NONE"
  /\ threads' = [threads EXCEPT
       ![i].pc = "valves",
       ![i].plc_data = EmptyOutputs,
       ![i].scan_log = [called |-> FALSE, logged |-> "scan error"]]
  /\ UNCHANGED <<clock, network, simulators, alarms, start_response, request,
                 running, simulation_thread, runs, stop_request, node, valves,
                 compressors>>

\* _update_valves, line 656: the queryset is evaluated, the rows are read.
update_valves_read(i) ==
  /\ threads[i].pc = "valves"
  /\ threads' = [threads EXCEPT ![i].pc = "valves_save", ![i].valve_rows = valves]
  /\ UNCHANGED <<clock, network, simulators, alarms, start_response, request,
                 running, simulation_thread, runs,
                 stop_request, node, valves, compressors>>

\* _update_valves, lines 658-694, on the rows read.
update_valves(i) ==
  /\ threads[i].pc = "valves_save"
  /\ \E drift \in Drifts :
       LET rows == threads[i].valve_rows
           has_plc == network.plc_type # "NONE"
       IN /\ valves' = save_valves(valves, rows, has_plc, threads[i].plc_data, drift)
          /\ threads' = [threads EXCEPT
               ![i].pc = "compressors",
               ![i].valve_rows = None,
               ![i].valve_data =
                  valve_records(rows, has_plc, threads[i].plc_data, drift)]
  /\ UNCHANGED <<clock, network, simulators, alarms, start_response, request,
                 running, simulation_thread, runs,
                 stop_request, node, compressors>>

\* _update_compressors on a network without compressors: the loop body is
\* never entered.
update_compressors_none(i) ==
  /\ threads[i].pc = "compressors"
  /\ DOMAIN compressors = {}
  /\ threads' = [threads EXCEPT ![i].pc = "physics"]
  /\ UNCHANGED <<clock, network, simulators, alarms, start_response, request,
                 running, simulation_thread, runs,
                 stop_request, node, valves, compressors>>

\* _update_compressors on a network with a compressor: the first row raises
\* NameError at line 742, which the loop's except clause takes.
update_compressors(i) ==
  /\ threads[i].pc = "compressors"
  /\ compressors_raise(compressors, network.plc_type = "COMPRESSOR_MANAGEMENT",
                       threads[i].plc_data)
  /\ Finish(i, "FAILED", "NameError",
            compressors_traceback(
              compressors, network.plc_type = "COMPRESSOR_MANAGEMENT",
              threads[i].plc_data, threads[i].sensor_data))
  /\ UNCHANGED <<clock, network, simulators, alarms, start_response, request,
                 simulation_thread, stop_request, node,
                 valves, compressors>>

\* _update_physics preceded by a test of self.running that leaves the loop.
update_physics_cancellable(i) ==
  /\ threads[i].pc = "physics"
  /\ IF running
     THEN /\ \E n \in PhysicsNoise : node' = physics(node, n)
          /\ threads' = [threads EXCEPT ![i].pc = "write"]
          /\ UNCHANGED <<runs, running>>
     ELSE /\ Finish(i, "COMPLETED", "", None)
          /\ node' = node
  /\ UNCHANGED <<clock, network, simulators, alarms, start_response, request,
                 simulation_thread, stop_request, valves, compressors>>

\* _update_physics.
update_physics(i) ==
  /\ threads[i].pc = "physics"
  /\ \E n \in PhysicsNoise : node' = physics(node, n)
  /\ threads' = [threads EXCEPT ![i].pc = "write"]
  /\ UNCHANGED <<clock, network, simulators, alarms, start_response, request,
                 running, simulation_thread, runs,
                 stop_request, valves, compressors>>

\* _write_to_postgres: the bulk insert, whose failure is logged and dropped.
write_to_postgres(i) ==
  /\ threads[i].pc = "write"
  /\ threads' = [threads EXCEPT ![i].pc = "sleep"]
  /\ UNCHANGED <<clock, network, simulators, alarms, start_response, request,
                 running, simulation_thread, runs,
                 stop_request, node, valves, compressors>>

\* _write_to_postgres with the except clause left out: the failure of the
\* bulk insert reaches the loop's except clause.
write_to_postgres_raising(i) ==
  /\ threads[i].pc = "write"
  /\ LET obj == [threads[i].simulation_run EXCEPT
                   !.status = "FAILED", !.total_steps = threads[i].step]
     IN /\ runs' = Saved(i, obj)
        /\ threads' = [threads EXCEPT
             ![i].pc = "done", ![i].simulation_run = obj,
             ![i].error = "Exception",
             ![i].write_errors = threads[i].write_errors + 1]
  /\ running' = FALSE
  /\ UNCHANGED <<clock, network, simulators, alarms, start_response, request,
                 simulation_thread, stop_request, node, valves, compressors>>

\* _write_to_postgres when the bulk insert fails: lines 409-410 log the
\* failure and the method returns.
write_to_postgres_failed(i) ==
  /\ threads[i].pc = "write"
  /\ threads' = [threads EXCEPT
       ![i].pc = "sleep", ![i].write_errors = threads[i].write_errors + 1]
  /\ UNCHANGED <<clock, network, simulators, alarms, start_response, request, running,
                 simulation_thread, runs, stop_request, node, valves, compressors>>

\* The pacing sleep without the step += 1 of line 340.
loop_sleep_same_step(i) ==
  /\ threads[i].pc = "sleep"
  /\ threads' = [threads EXCEPT
       ![i].pc = "cond",
       ![i].sensor_data = None, ![i].plc_data = None, ![i].valve_data = None,
       ![i].scan_log = None]
  /\ UNCHANGED <<clock, network, simulators, alarms, start_response, request,
                 running, simulation_thread, runs,
                 stop_request, node, valves, compressors>>

\* Lines 336-340: the pacing sleep, then step += 1.
loop_sleep(i) ==
  /\ threads[i].pc = "sleep"
  /\ threads' = [threads EXCEPT
       ![i].pc = "cond", ![i].step = threads[i].step + 1,
       ![i].sensor_data = None, ![i].plc_data = None, ![i].valve_data = None,
       ![i].scan_log = None]
  /\ UNCHANGED <<clock, network, simulators, alarms, start_response, request,
                 running, simulation_thread, runs,
                 stop_request, node, valves, compressors>>

\* ------------------------------------------------------ command surface

Commands == {"ON", "OFF", "AUTO", "START"}

\* views.control_valve, lines 266-273, on the row read: the row that is
\* saved, or the row unchanged when the request is answered 400.
control_valve_row(valve, position) ==
  IF 0 <= position /\ position <= PosMax
  THEN [valve EXCEPT !.set_position = position]
  ELSE valve

\* views.control_valve: a position outside [0, 100] is answered 400, an
\* unknown valve 404; else set_position is written.
control_valve(v, position) ==
  /\ valves' = IF v \in DOMAIN valves
               THEN [valves EXCEPT ![v] = control_valve_row(valves[v], position)]
               ELSE valves
  /\ UNCHANGED <<clock, network, simulators, alarms, start_response, request,
                 running, simulation_thread, runs, threads,
                 stop_request, node, compressors>>

\* views.control_valve_auto: set_position = -1.0.
control_valve_auto(v) ==
  /\ v \in DOMAIN valves
  /\ valves' = [valves EXCEPT ![v].set_position = NoOverride]
  /\ UNCHANGED <<clock, network, simulators, alarms, start_response, request,
                 running, simulation_thread, runs, threads,
                 stop_request, node, compressors>>

\* views.control_compressor with the command stored in status.
control_compressor_status(compressor, command, speed) ==
  IF command \notin {"ON", "OFF", "AUTO"} \/ (command = "ON" /\ ~speed.given)
  THEN compressor
  ELSE [compressor EXCEPT !.status = command]

\* views.control_compressor, lines 325-351, on the row read: the row that is
\* saved, or the row unchanged when the request is answered 400.
control_compressor_row(compressor, command, speed) ==
  IF command \notin {"ON", "OFF", "AUTO"} \/ (command = "ON" /\ ~speed.given)
  THEN compressor
  ELSE IF command = "AUTO"
  THEN [compressor EXCEPT !.set_command = command, !.set_speed = AutoSpeed]
  ELSE IF speed.given /\ 0 <= speed.value /\ speed.value <= compressor.max_speed
  THEN [compressor EXCEPT !.set_command = command, !.set_speed = speed.value]
  ELSE IF command = "OFF"
  THEN [compressor EXCEPT !.set_command = command, !.set_speed = 0]
  ELSE compressor

\* views.control_compressor.
control_compressor(c, command, speed) ==
  /\ c \in DOMAIN compressors
  /\ compressors' = [compressors EXCEPT
                       ![c] = control_compressor_row(compressors[c], command, speed)]
  /\ UNCHANGED <<clock, network, simulators, alarms, start_response, request,
                 running, simulation_thread, runs, threads,
                 stop_request, node, valves>>

\* views.control_node with node.save() reached after an error response: the
\* setpoint assigned before the rejected one is stored.
control_node_row_partial(nd, set_pressure, set_flow) ==
  LET p_ok == set_pressure.given /\ nd.pressure_min <= set_pressure.value
                                   /\ set_pressure.value <= nd.pressure_max
      f_ok == set_flow.given /\ nd.flow_min <= set_flow.value
                             /\ set_flow.value <= nd.flow_max
      nd1 == IF p_ok THEN [nd EXCEPT !.set_pressure = set_pressure.value] ELSE nd
  IN IF f_ok THEN [nd1 EXCEPT !.set_flow = set_flow.value] ELSE nd1

\* views.control_node, lines 379-398, on the row read: the row that is saved,
\* or the row unchanged when the request is answered 400.
control_node_row(nd, set_pressure, set_flow) ==
  LET p_ok == set_pressure.given /\ nd.pressure_min <= set_pressure.value
                                   /\ set_pressure.value <= nd.pressure_max
      f_ok == set_flow.given /\ nd.flow_min <= set_flow.value
                             /\ set_flow.value <= nd.flow_max
      nd1 == IF p_ok THEN [nd EXCEPT !.set_pressure = set_pressure.value] ELSE nd
      nd2 == IF f_ok THEN [nd1 EXCEPT !.set_flow = set_flow.value] ELSE nd1
  IN IF (set_pressure.given /\ ~p_ok) \/ (set_flow.given /\ ~f_ok)
        \/ (~set_pressure.given /\ ~set_flow.given)
     THEN nd
     ELSE nd2

\* views.control_node.
control_node(set_pressure, set_flow) ==
  /\ node' = control_node_row(node, set_pressure, set_flow)
  /\ UNCHANGED <<clock, network, simulators, alarms, start_response, request,
                 running, simulation_thread, runs, threads,
                 stop_request, valves, compressors>>

\* ---------------------------------------------------------- specification

\* The run lifecycle: start and stop requests against the loop threads, each
\* loop iteration taken whole.
Next ==
  \/ Tick
  \/ \E d \in Durations, t \in TimeSteps : start_invalid(d, t)
  \/ \E d \in Durations, t \in TimeSteps : start_same_second(d, t)
  \/ \E d \in Durations, t \in TimeSteps : start_simulation(d, t)
  \/ stop_begin
  \/ stop_joined
  \/ stop_join_timeout
  \/ stop_update
  \/ \E i \in DOMAIN threads : simulation_step(i)
  \/ \E i \in DOMAIN threads : step_error(i)
  \/ \E i \in DOMAIN threads : loop_exit(i)
  \/ \E i \in DOMAIN threads : loop_sleep(i)

\* The lifecycle is checked on the topologies whose pipe has no PLC at its
\* from_node and whose node has the default pressure limits.
InitRuns ==
  /\ Init
  /\ network.plc_type = "NONE"
  /\ node.pressure_min = 10

Spec == InitRuns /\ [][Next]_vars

\* One run, stage by stage, with the setpoint commands of the command
\* surface arriving between any two stages.
NextControl ==
  \/ \E d \in Durations, t \in TimeSteps : runs = <<>> /\ start_simulation(d, t)
  \/ \E i \in DOMAIN threads : loop_step(i)
  \/ \E i \in DOMAIN threads : loop_exit(i)
  \/ \E i \in DOMAIN threads : step_error(i)
  \/ \E i \in DOMAIN threads : update_sensors(i)
  \/ \E i \in DOMAIN threads : execute_plcs(i)
  \/ \E i \in DOMAIN threads : update_valves_read(i)
  \/ \E i \in DOMAIN threads : update_valves(i)
  \/ \E i \in DOMAIN threads : update_compressors_none(i)
  \/ \E i \in DOMAIN threads : update_compressors(i)
  \/ \E i \in DOMAIN threads : update_physics(i)
  \/ \E i \in DOMAIN threads : write_to_postgres(i)
  \/ \E i \in DOMAIN threads : loop_sleep(i)
  \/ \E v \in ValveIds, p \in RequestedPositions : control_valve(v, p)
  \/ \E v \in ValveIds : control_valve_auto(v)
  \/ \E c \in CompIds, cmd \in Commands, sp \in Optional(RequestedSpeeds) :
       control_compressor(c, cmd, sp)
  \/ \E p \in Optional(RequestedPressures), f \in Optional(RequestedFlows) :
       control_node(p, f)

SpecControl == Init /\ [][NextControl]_vars

\* views.control_node, lines 379-398: whether the request reaches node.save().
control_node_accepted(nd, set_pressure, set_flow) ==
  /\ set_pressure.given \/ set_flow.given
  /\ set_pressure.given =>
       nd.pressure_min <= set_pressure.value /\ set_pressure.value <= nd.pressure_max
  /\ set_flow.given =>
       nd.flow_min <= set_flow.value /\ set_flow.value <= nd.flow_max

\* views.control_valve up to the assignment of line 272: the request holds
\* the Valve object that get_object_or_404 read, with the new set_position.
control_valve_get(v, position) ==
  /\ request = None
  /\ v \in DOMAIN valves
  /\ 0 <= position /\ position <= PosMax
  /\ request' = [kind |-> "valve", id |-> v,
                 row |-> [valves[v] EXCEPT !.set_position = position]]
  /\ UNCHANGED <<clock, network, simulators, alarms, start_response, running,
                 simulation_thread, runs, threads, stop_request,
                 node, valves, compressors>>

\* views.control_node up to node.save(): the request holds the Node object
\* that get_object_or_404 read, with the new setpoints.
control_node_get(set_pressure, set_flow) ==
  /\ request = None
  /\ control_node_accepted(node, set_pressure, set_flow)
  /\ request' = [kind |-> "node", id |-> "source",
                 row |-> control_node_row(node, set_pressure, set_flow)]
  /\ UNCHANGED <<clock, network, simulators, alarms, start_response, running,
                 simulation_thread, runs, threads, stop_request,
                 node, valves, compressors>>

\* valve.save() of views.control_valve, node.save() of views.control_node:
\* Model.save() writes every field of the object.
control_save ==
  /\ request # None
  /\ valves' = IF request.kind = "valve"
               THEN [valves EXCEPT ![request.id] = request.row]
               ELSE valves
  /\ node' = IF request.kind = "node" THEN request.row ELSE node
  /\ request' = None
  /\ UNCHANGED <<clock, network, simulators, alarms, start_response, running,
                 simulation_thread, runs, threads, stop_request, compressors>>

InitRace ==
  /\ InitTables
  /\ network.plc_type \in {"PRESSURE_CONTROL", "NONE"}
  /\ ~network.compressor_node
  /\ node = new_node(10, 810)

\* One run, stage by stage, with valve and node commands whose read and
\* save are separate steps.
NextRace ==
  \/ \E d \in Durations, t \in TimeSteps : runs = <<>> /\ start_simulation(d, t)
  \/ \E i \in DOMAIN threads : loop_step(i)
  \/ \E i \in DOMAIN threads : loop_exit(i)
  \/ \E i \in DOMAIN threads : update_sensors(i)
  \/ \E i \in DOMAIN threads : execute_plcs(i)
  \/ \E i \in DOMAIN threads : update_valves_read(i)
  \/ \E i \in DOMAIN threads : update_valves(i)
  \/ \E i \in DOMAIN threads : update_compressors_none(i)
  \/ \E i \in DOMAIN threads : update_physics(i)
  \/ \E i \in DOMAIN threads : write_to_postgres(i)
  \/ \E i \in DOMAIN threads : loop_sleep(i)
  \/ \E v \in ValveIds, p \in ManualPositions : control_valve_get(v, p)
  \/ \E p \in Optional(RequestedPressures), f \in Optional(RequestedFlows) :
       control_node_get(p, f)
  \/ control_save

SpecRace == InitRace /\ [][NextRace]_vars

\* A requested set_pressure at the node's upper limit.
LimitPressures == {810}

InitRestart ==
  /\ InitTables
  /\ network.plc_type = "NONE"
  /\ ~network.compressor_node
  /\ node = new_node(10, 810)

\* Runs started one after the other, whole steps, and node commands.
NextRestart ==
  \/ Tick
  \/ \E d \in Durations, t \in TimeSteps : start_simulation(d, t)
  \/ \E i \in DOMAIN threads : simulation_step(i)
  \/ \E i \in DOMAIN threads : loop_exit(i)
  \/ \E i \in DOMAIN threads : loop_sleep(i)
  \/ \E p \in LimitPressures : control_node(Some(p), Absent)

SpecRestart == InitRestart /\ [][NextRestart]_vars

\* One run, whole steps, with the setpoint commands of the command surface
\* arriving between the steps.
NextCommands ==
  \/ \E d \in Durations, t \in TimeSteps : runs = <<>> /\ start_simulation(d, t)
  \/ \E i \in DOMAIN threads : simulation_step(i)
  \/ \E i \in DOMAIN threads : loop_exit(i)
  \/ \E i \in DOMAIN threads : loop_sleep(i)
  \/ \E v \in ValveIds, p \in RequestedPositions : control_valve(v, p)
  \/ \E v \in ValveIds : control_valve_auto(v)
  \/ \E c \in CompIds, cmd \in Commands, sp \in Optional(RequestedSpeeds) :
       control_compressor(c, cmd, sp)
  \/ \E p \in Optional(RequestedPressures), f \in Optional(RequestedFlows) :
       control_node(p, f)

SpecCommands == Init /\ [][NextCommands]_vars

\* One scan of a PLCSimulator object that is kept across scans.
execute_scan_kept(k, input, sink_ok) ==
  /\ k \in {"a", "b"}
  /\ Len(simulators[k].inputs) < MaxScans
  /\ simulators' = [simulators EXCEPT ![k] = simulator_scan(simulators[k], input, sink_ok)]
  /\ UNCHANGED <<clock, network, running, simulation_thread, runs, threads,
                 stop_request, node, valves, compressors, alarms,
                 start_response, request>>

\* _execute_plcs in one step, lines 639-641: a new PLCSimulator is built for
\* the controller and executes the step's scan; the object is dropped at
\* the end of the call.  simulators.loop keeps the state of the last object
\* and the scans of all of them.
execute_plcs_scan(input, sink_ok) ==
  /\ Len(simulators.loop.inputs) < MaxScans
  /\ LET simulator == simulator_scan(NewSimulator, input, sink_ok)
     IN simulators' = [simulators EXCEPT !.loop =
          [integral_error |-> simulator.integral_error,
           last_error |-> simulator.last_error,
           inputs |-> Append(simulators.loop.inputs, input),
           outputs |-> Append(simulators.loop.outputs, simulator.outputs[1])]]
  /\ UNCHANGED <<clock, network, running, simulation_thread, runs, threads,
                 stop_request, node, valves, compressors, alarms,
                 start_response, request>>

InitPid ==
  /\ InitTables
  /\ network.plc_type = "PRESSURE_CONTROL"
  /\ ~network.compressor_node
  /\ node = new_node(10, ScanPressureMax)

\* The scans of pressure controllers: objects kept across scans, and the
\* objects of the loop's controller bank.
NextPid ==
  \/ \E k \in {"a", "b"}, input \in ScanInputs, sink_ok \in BOOLEAN :
       execute_scan_kept(k, input, sink_ok)
  \/ \E input \in ScanInputs, sink_ok \in BOOLEAN : execute_plcs_scan(input, sink_ok)

SpecPid == InitPid /\ [][NextPid]_vars

\* One run, whole steps, with stop requests and step exceptions.
NextLive ==
  \/ \E d \in Durations, t \in TimeSteps : runs = <<>> /\ start_simulation(d, t)
  \/ stop_begin
  \/ stop_joined
  \/ stop_join_timeout
  \/ stop_update
  \/ \E i \in DOMAIN threads : simulation_step(i)
  \/ \E i \in DOMAIN threads : step_error(i)
  \/ \E i \in DOMAIN threads : loop_exit(i)
  \/ \E i \in DOMAIN threads : loop_sleep(i)

\* The loop thread is a started threading.Thread: it is scheduled as long as
\* it has a statement to execute, and time.sleep returns.
SpecLive ==
  /\ Init
  /\ [][NextLive]_vars
  /\ WF_vars(\E i \in DOMAIN threads : simulation_step(i))
  /\ WF_vars(\E i \in DOMAIN threads : loop_exit(i))
  /\ WF_vars(\E i \in DOMAIN threads : loop_sleep(i))

InitValves ==
  /\ InitTables
  /\ ~network.compressor_node
  /\ node = new_node(10, 810)

\* One run on a network without compressors, stage by stage, with the valve
\* commands arriving between any two stages.
NextValves ==
  \/ \E d \in Durations, t \in TimeSteps : runs = <<>> /\ start_simulation(d, t)
  \/ \E i \in DOMAIN threads : loop_step(i)
  \/ \E i \in DOMAIN threads : loop_exit(i)
  \/ \E i \in DOMAIN threads : update_sensors(i)
  \/ \E i \in DOMAIN threads : execute_plcs(i)
  \/ \E i \in DOMAIN threads : execute_plcs_scan_error(i)
  \/ \E i \in DOMAIN threads : update_valves_read(i)
  \/ \E i \in DOMAIN threads : update_valves(i)
  \/ \E i \in DOMAIN threads : update_compressors_none(i)
  \/ \E i \in DOMAIN threads : update_physics(i)
  \/ \E i \in DOMAIN threads : write_to_postgres(i)
  \/ \E i \in DOMAIN threads : loop_sleep(i)
  \/ \E v \in ValveIds, p \in RequestedPositions : control_valve(v, p)
  \/ \E v \in ValveIds : control_valve_auto(v)

SpecValves == InitValves /\ [][NextValves]_vars

\* A node whose pressure starts above 90 % of its pressure_max, the warning
\* limit of the pressure controller.
HighPressureLimits == {[pressure_min |-> 690, pressure_max |-> 810]}

InitLoop ==
  /\ InitTables
  /\ network.max_speed = 3000
  /\ \E lim \in HighPressureLimits \cup {[pressure_min |-> 10, pressure_max |-> 810]} :
       node = new_node(lim.pressure_min, lim.pressure_max)

\* One run, stage by stage, with start and stop requests, step exceptions
\* and failures of the alarm and persistence sinks.
NextLoop ==
  \/ \E d \in Durations, t \in TimeSteps : start_invalid(d, t)
  \/ \E d \in Durations, t \in TimeSteps : start_same_second(d, t)
  \/ \E d \in Durations, t \in TimeSteps : runs = <<>> /\ start_simulation(d, t)
  \/ stop_begin
  \/ stop_joined
  \/ stop_join_timeout
  \/ stop_update
  \/ \E i \in DOMAIN threads : loop_step(i)
  \/ \E i \in DOMAIN threads : loop_exit(i)
  \/ \E i \in DOMAIN threads : step_error(i)
  \/ \E i \in DOMAIN threads : update_sensors(i)
  \/ \E i \in DOMAIN threads : execute_plcs(i)
  \/ \E i \in DOMAIN threads : update_valves_read(i)
  \/ \E i \in DOMAIN threads : update_valves(i)
  \/ \E i \in DOMAIN threads : update_compressors_none(i)
  \/ \E i \in DOMAIN threads : update_compressors(i)
  \/ \E i \in DOMAIN threads : update_physics(i)
  \/ \E i \in DOMAIN threads : write_to_postgres(i)
  \/ \E i \in DOMAIN threads : write_to_postgres_failed(i)
  \/ \E i \in DOMAIN threads : loop_sleep(i)

SpecLoop == InitLoop /\ [][NextLoop]_vars

\* The Compressor rows a database holds from earlier operation, which
\* get_or_create of _initialize_compressors finds and keeps.
StoredStatuses == {"OFF", "STARTING", "RUNNING", "STOPPING"}
StoredSpeeds == {0, 2700}
\* A node whose pressure starts at 50.0 bar, inside the deadband.
DeadbandLimits == {[pressure_min |-> 190, pressure_max |-> 810]}

InitCompressor ==
  /\ clock = 0
  /\ network \in [plc_type : {"COMPRESSOR_MANAGEMENT", "NONE"},
                  compressor_node : {TRUE}, max_speed : MaxSpeeds]
  /\ running = FALSE
  /\ simulation_thread = 0
  /\ runs = <<>>
  /\ threads = <<>>
  /\ stop_request = [pc |-> "idle", thread |-> 0]
  /\ \E lim \in PressureLimits \cup DeadbandLimits :
       node = new_node(lim.pressure_min, lim.pressure_max)
  /\ valves = EmptyTable
  /\ \E st \in StoredStatuses, sp \in StoredSpeeds :
       compressors = [c \in CompIds |->
                        [new_compressor(network.max_speed) EXCEPT
                           !.status = st, !.speed = sp]]
  /\ alarms = 0
  /\ start_response = None
  /\ request = None
  /\ simulators = [k \in SimulatorIds |-> NewSimulator]

\* One run on a network with a compressor station under its controller,
\* up to the compressor stage of the first step.
NextCompressor ==
  \/ \E d \in Durations, t \in TimeSteps : runs = <<>> /\ start_simulation(d, t)
  \/ \E i \in DOMAIN threads : loop_step(i)
  \/ \E i \in DOMAIN threads : update_sensors(i)
  \/ \E i \in DOMAIN threads : execute_plcs(i)
  \/ \E i \in DOMAIN threads : update_valves_read(i)
  \/ \E i \in DOMAIN threads : update_valves(i)
  \/ \E i \in DOMAIN threads : update_compressors(i)
  \/ \E c \in CompIds, cmd \in Commands, sp \in Optional(RequestedSpeeds) :
       control_compressor(c, cmd, sp)

SpecCompressor == InitCompressor /\ [][NextCompressor]_vars

\* One run on a network with a compressor station, whole steps, with the
\* compressor commands arriving before and after the steps.
NextCompressorLive ==
  \/ \E d \in Durations, t \in TimeSteps : runs = <<>> /\ start_simulation(d, t)
  \/ \E i \in DOMAIN threads : simulation_step(i)
  \/ \E c \in CompIds, cmd \in Commands, sp \in Optional(RequestedSpeeds) :
       control_compressor(c, cmd, sp)

\* The loop thread is scheduled as long as it has a step to execute.
SpecCompressorLive ==
  /\ InitCompressor
  /\ [][NextCompressorLive]_vars
  /\ WF_vars(\E i \in DOMAIN threads : simulation_step(i))

\* ------------------------------------------------------------ properties

\* A loop thread that has begun an iteration and is not yet back at line 303.
InStep(i) == threads[i].pc \in Stages \cup {"sleep"}

\* The number of steps k = 0, 1, ... with k * time_step < duration.
StepsOf(run) == (run.duration + run.time_step - 1) \div run.time_step

\* C1: a start request made while a run is RUNNING (its row RUNNING, its
\* loop alive) creates no SimulationRun and no loop thread, and leaves that
\* run's status and step count as they were.
C1_SecondStartRejected ==
  [][(\E i \in DOMAIN runs : runs[i].status = "RUNNING" /\ Alive(i))
       => /\ Len(runs') = Len(runs)
          /\ Len(threads') = Len(threads)]_vars

\* C2: never are two loop threads of the engine inside an iteration at the
\* same time.
C2_AtMostOneLoop ==
  \A i, j \in DOMAIN threads : (InStep(i) /\ InStep(j)) => i = j

\* C3: a run that a stop request hit mid-run is, once its loop has ended and
\* the stop request is answered, STOPPED with total_steps the number of
\* steps its loop executed.
C3_StoppedMidRunEndsStopped ==
  \A i \in DOMAIN threads :
    (threads[i].stopped = "mid-run" /\ ~Alive(i) /\ stop_request.pc = "idle")
      => /\ runs[i].status = "STOPPED"
         /\ runs[i].total_steps = threads[i].step

\* C4: the stored status of a run moves only CREATED -> RUNNING -> terminal,
\* and a terminal status never changes.
C4_StatusMonotonic ==
  [][\A i \in DOMAIN runs :
       \/ runs'[i].status = runs[i].status
       \/ runs[i].status = "CREATED" /\ runs'[i].status = "RUNNING"
       \/ runs[i].status = "RUNNING" /\ runs'[i].status \in Terminal]_vars

\* C5: a run whose loop has ended, that no stop request hit and that met no
\* step error, is COMPLETED with total_steps the number of steps k with
\* k * time_step < duration.
C5_UnstoppedRunExecutesAllSteps ==
  \A i \in DOMAIN threads :
    (~Alive(i) /\ threads[i].stopped = "no" /\ threads[i].error = "")
      => /\ runs[i].status = "COMPLETED"
         /\ runs[i].total_steps = StepsOf(runs[i])

\* The valve records of the arbitration that a live thread has just run.
ValveRecords ==
  {r \in UNION {{[i |-> i, v |-> v] : v \in ValveIds} : i \in DOMAIN threads} :
     threads[r.i].valve_data # None /\ r.v \in DOMAIN threads[r.i].valve_data}

\* C6: every valve's stored position lies in [0, 100] percent, in every state
\* of a run: after each arbitration step and between them.
C6_ValvePositionInRange ==
  \A v \in DOMAIN valves :
    0 <= valves[v].position /\ valves[v].position <= PosMax

\* C6 witness: an arbitration step resolved a target above 100 percent (a
\* fully open valve drifting upwards) and the stored position is 100.
C6_Witness ==
  \E r \in ValveRecords :
    /\ threads[r.i].valve_data[r.v].raw_position > PosMax
    /\ threads[r.i].valve_data[r.v].target = PosMax
    /\ valves[r.v].position = PosMax

\* C7: every compressor's speed lies in [0, max_speed] in every state, for
\* any sequence of steps and manual compressor commands.
C7_CompressorSpeedInRange ==
  \A c \in DOMAIN compressors :
    0 <= compressors[c].speed /\ compressors[c].speed <= compressors[c].max_speed

\* C7 witness: a manual ON command with a positive speed was accepted, the
\* compressor stage of a step then ran with that target, and the speed is in
\* range.
C7_Witness ==
  \E i \in DOMAIN threads :
    /\ threads[i].traceback # None
    /\ threads[i].traceback.control_source = "Manual"
    /\ threads[i].traceback.target_status = "ON"
    /\ threads[i].traceback.target_speed > 0
    /\ compressors[threads[i].traceback.compressor_id].speed
         <= compressors[threads[i].traceback.compressor_id].max_speed

\* The edges of the compressor state machine.
CompressorEdges ==
  {<<"OFF", "STARTING">>, <<"STARTING", "RUNNING">>,
   <<"RUNNING", "STOPPING">>, <<"STOPPING", "OFF">>}

\* C8: between two consecutive states a compressor's stored status is
\* unchanged or has moved along one edge of OFF -> STARTING -> RUNNING ->
\* STOPPING -> OFF; and the edge a compressor stage computes is one of these
\* or none.
C8_CompressorStatusEdges ==
  /\ [][\A c \in DOMAIN compressors \cap DOMAIN compressors' :
          \/ compressors'[c].status = compressors[c].status
          \/ <<compressors[c].status, compressors'[c].status>> \in CompressorEdges]_vars
  /\ [](\A i \in DOMAIN threads :
          threads[i].traceback # None =>
            \/ threads[i].traceback.new_status = threads[i].traceback.status
            \/ <<threads[i].traceback.status, threads[i].traceback.new_status>>
                 \in CompressorEdges)

\* C8 witness: the compressor stage of a step computed the edge
\* OFF -> STARTING for a compressor under PLC control, and the stored status
\* is one the edge relation allows after OFF.
C8_Witness ==
  \E i \in DOMAIN threads :
    /\ threads[i].traceback # None
    /\ threads[i].traceback.control_source = "PLC"
    /\ threads[i].traceback.status = "OFF"
    /\ threads[i].traceback.new_status = "STARTING"
    /\ compressors[threads[i].traceback.compressor_id].status \in {"OFF", "STARTING"}

\* C9: in every arbitration step, a valve whose row has set_position >= 0
\* gets set_position as its target, whatever the controller bound to it put
\* out; a valve whose row has set_position < 0 (after a release) gets its
\* target from the controller's output, or from its own position within the
\* default drift.
C9_ManualOverridePrecedence ==
  \A r \in ValveRecords :
    LET rec == threads[r.i].valve_data[r.v]
        out == threads[r.i].plc_data
    IN /\ rec.set_position >= 0 =>
            /\ rec.target = rec.set_position
            /\ rec.control_source = "Manual"
       /\ rec.set_position < 0 =>
            /\ rec.control_source \in {"PLC (Pressure)", "PLC (Flow)", "No Control", "Default"}
            /\ rec.control_source = "PLC (Pressure)" =>
                 rec.target = out["CONTROL_VALVE_POSITION"]
            /\ rec.control_source = "PLC (Flow)" =>
                 rec.target = out["FLOW_CONTROL_VALVE"]
            /\ rec.control_source = "No Control" => rec.target = rec.position_before
            /\ rec.control_source = "Default" =>
                 Abs(rec.target - rec.position_before) <= PosHysteresis

\* C9 witness: a valve stands at 62 percent from the override of an earlier
\* step, set_position is -1 again, and this step resolved another target
\* from the pressure controller's output.
C9_Witness ==
  \E r \in ValveRecords :
    /\ threads[r.i].step > 0
    /\ threads[r.i].valve_data[r.v].set_position < 0
    /\ threads[r.i].valve_data[r.v].position_before = 62000
    /\ threads[r.i].valve_data[r.v].control_source = "PLC (Pressure)"
    /\ threads[r.i].valve_data[r.v].target # 62000

\* C10: when the compressor stage of a step has run for a compressor with
\* set_command = AUTO that was OFF, under its controller, with the observed
\* pressure below 45 bar, the compressor's stored status is STARTING (or
\* beyond) and its speed has risen.
C10_AutoStartBelow45 ==
  \A i \in DOMAIN threads :
    (/\ threads[i].traceback # None
     /\ threads[i].traceback.set_command = "AUTO"
     /\ threads[i].traceback.control_source = "PLC"
     /\ threads[i].traceback.status = "OFF"
     /\ threads[i].traceback.pressure < StartPressure)
      => /\ compressors[threads[i].traceback.compressor_id].status
              \in {"STARTING", "RUNNING"}
         /\ compressors[threads[i].traceback.compressor_id].speed
              > threads[i].traceback.speed

C12_ExceptionEndsRunFailed ==
  /\ [](\A i \in DOMAIN threads :
         threads[i].error # "" =>
           /\ threads[i].pc = "done"
           /\ runs[i].status = "FAILED"
           /\ runs[i].total_steps = threads[i].step)
  /\ [][\A i \in DOMAIN threads :
         threads[i].pc = "done" =>
           /\ threads'[i].pc = "done"
           /\ threads'[i].step = threads[i].step]_vars

\* C12 witness: the second step of a run raised; the run is FAILED with
\* total_steps = 1.
C12_Witness ==
  \E i \in DOMAIN threads :
    /\ threads[i].error = "Exception"
    /\ threads[i].step = 1
    /\ runs[i].status = "FAILED"
    /\ runs[i].total_steps = 1

\* C13: a step whose persistence write fails goes on to its pacing sleep:
\* the run's row and the running flag are as before, and a run stored
\* FAILED has failed by an exception of another stage.
C13_WriteFailureIsDropped ==
  /\ [][\A i \in DOMAIN threads :
         threads'[i].write_errors > threads[i].write_errors =>
           /\ threads'[i].pc = "sleep"
           /\ threads'[i].error = ""
           /\ runs' = runs
           /\ running' = running]_vars
  /\ [](\A i \in DOMAIN threads :
         runs[i].status = "FAILED" => threads[i].error \in {"Exception", "NameError"})

\* C13 witness: a run of two steps whose writes both failed has ended
\* COMPLETED with total_steps = 2.
C13_Witness ==
  \E i \in DOMAIN threads :
    /\ threads[i].write_errors = 2
    /\ threads[i].pc = "done"
    /\ runs[i].status = "COMPLETED"
    /\ runs[i].total_steps = 2

\* C14: after a scan of the pressure controller that raised its
\* HIGH_PRESSURE alarm, whether the alarm sink stored the alarm or failed,
\* the outputs handed to the step are those the control law computes from
\* the observed pressure and the setpoint, and the step goes on.
C14_AlarmFailureIsSwallowed ==
  \A i \in DOMAIN threads :
    (threads[i].scan_log # None /\ threads[i].scan_log.called) =>
      /\ threads[i].scan_log.logged \in {"", "Error creating alarm"}
      /\ threads[i].plc_data =
           pressure_control_logic(threads[i].sensor_data.pressure,
                                  node.set_pressure, 0, 0).outputs
      /\ threads[i].error = ""
      /\ threads[i].pc \in Stages \cup {"sleep"}

\* C14 witness: the alarm sink failed while the controller raised
\* HIGH_PRESSURE; no alarm row exists, and the step is at the valve stage
\* with the controller's valve position.
C14_Witness ==
  \E i \in DOMAIN threads :
    /\ threads[i].scan_log # None
    /\ threads[i].scan_log.called
    /\ threads[i].scan_log.logged = "Error creating alarm"
    /\ alarms = 0
    /\ threads[i].pc = "valves"
    /\ "CONTROL_VALVE_POSITION" \in DOMAIN threads[i].plc_data

\* C15: every SimulationRun has duration > 0 and time_step > 0, and a start
\* request answered with a validation error leaves the runs, the threads
\* and the running flag as they were.
C15_InvalidStartRejected ==
  /\ [](\A i \in DOMAIN runs : runs[i].duration > 0 /\ runs[i].time_step > 0)
  /\ [](Len(threads) = Len(runs))
  /\ [][(/\ start_response' # start_response
          /\ start_response'.status = "error"
          /\ start_response'.message # "Error starting simulation")
         => /\ runs' = runs
            /\ threads' = threads
            /\ running' = running
            /\ simulation_thread' = simulation_thread]_vars

\* C15 witness: a start request with duration 0 was answered with the
\* duration error while a run was alive; the run, its thread and the flag
\* are in place.
C15_Witness ==
  /\ start_response # None
  /\ start_response.status = "error"
  /\ start_response.message = "Duration must be between 1 and 3600 seconds"
  /\ Len(runs) = 1
  /\ Len(threads) = 1
  /\ running
  /\ threads[1].pc = "cond"
  /\ threads[1].step = 0

\* The stage that follows a stage of a step.
NextStage(pc) ==
  CASE pc = "sensors" -> {"plcs"}
    [] pc = "plcs" -> {"valves"}
    [] pc = "valves" -> {"valves_save"}
    [] pc = "valves_save" -> {"compressors"}
    [] pc = "compressors" -> {"physics"}
    [] pc = "physics" -> {"write"}
    [] pc = "write" -> {"sleep"}
    [] pc = "sleep" -> {"cond"}
    [] OTHER -> {}

\* C16: a thread inside a step moves only to the step's next stage, or ends
\* by an exception, whatever the running flag is: the flag ends the loop
\* only from the loop condition.
C16_CancellationAtStepBoundary ==
  [][\A i \in DOMAIN threads :
       (InStep(i) /\ threads'[i].pc # threads[i].pc) =>
         \/ threads'[i].pc \in NextStage(threads[i].pc)
         \/ threads'[i].pc = "done" /\ threads'[i].error # ""]_vars

\* C16 witness: stop() cleared the flag while the first step was reading
\* its sensors; the step has gone through arbitration, physics and the
\* persistence write and is at its pacing sleep.
C16_Witness ==
  \E i \in DOMAIN threads :
    /\ threads[i].stopped_at = "sensors"
    /\ ~running
    /\ threads[i].step = 0
    /\ threads[i].pc = "sleep"
    /\ threads[i].valve_data # None
    /\ threads[i].error = ""

\* C17: the save of an external setpoint command changes no derived field:
\* every valve's position and the node's current_pressure and current_flow
\* are after the save what they were before it.
C17_CommandsTouchOnlySetpoints ==
  [][(request # None /\ request' = None) =>
       /\ \A v \in DOMAIN valves : valves'[v].position = valves[v].position
       /\ node'.current_pressure = node.current_pressure
       /\ node'.current_flow = node.current_flow]_vars

\* C18: a valve's stored set_position changes only in the step of an
\* external command: no step of the loop changes it.
C18_SetpointWriteNotLost ==
  [][\A v \in DOMAIN valves :
       valves'[v].set_position # valves[v].set_position => threads' = threads]_vars

\* C19: in every state the node's set_pressure lies in
\* [pressure_min, pressure_max] and its set_flow in [flow_min, flow_max].
C19_NodeSetpointsInRange ==
  /\ node.pressure_min <= node.set_pressure
  /\ node.set_pressure <= node.pressure_max
  /\ node.flow_min <= node.set_flow
  /\ node.set_flow <= node.flow_max

\* C20: on the rows of every reachable state, a node command with a
\* set_pressure or set_flow outside the node's limits, a valve command with
\* a position outside [0, 100], and a compressor command that is unknown or
\* is ON with a speed outside [0, max_speed] leave the row as it is stored,
\* also when the node command's other setpoint is valid; and no step that
\* changes the state is the step of such a command.
C20_OutOfRangeCommandRejected ==
  /\ [](/\ \A p \in Optional(RequestedPressures), f \in Optional(RequestedFlows) :
            (\/ p.given /\ (p.value < node.pressure_min \/ p.value > node.pressure_max)
             \/ f.given /\ (f.value < node.flow_min \/ f.value > node.flow_max))
              => control_node_row(node, p, f) = node
        /\ \A v \in DOMAIN valves, p \in RequestedPositions :
            (p < 0 \/ p > PosMax) => control_valve_row(valves[v], p) = valves[v]
        /\ \A c \in DOMAIN compressors, cmd \in Commands,
              sp \in Optional(RequestedSpeeds) :
            (\/ cmd \notin {"ON", "OFF", "AUTO"}
             \/ cmd = "ON" /\ sp.given
                  /\ (sp.value < 0 \/ sp.value > compressors[c].max_speed))
              => control_compressor_row(compressors[c], cmd, sp) = compressors[c])
  /\ [][\A p \in Optional(RequestedPressures), f \in Optional(RequestedFlows) :
         (/\ \/ p.given /\ (p.value < node.pressure_min \/ p.value > node.pressure_max)
             \/ f.given /\ (f.value < node.flow_min \/ f.value > node.flow_max)
          /\ control_node(p, f))
           => UNCHANGED vars]_vars

\* C20 witness: while a run is alive, with set_pressure stored other than
\* 40.0 bar, a valve override of 62 percent and a compressor commanded OFF,
\* the node request (set_pressure 40.0, set_flow -5), the valve request 150
\* and the compressor request ON at 20000 RPM are answered 400 on rows that
\* the valid request (set_pressure 40.0) would change.
C20_Witness ==
  /\ \E i \in DOMAIN threads : Alive(i)
  /\ node.set_pressure # 400
  /\ control_node_accepted(node, Some(400), Absent)
  /\ control_node_row(node, Some(400), Absent) # node
  /\ ~control_node_accepted(node, Some(400), Some(-5))
  /\ control_node_row(node, Some(400), Some(-5)) = node
  /\ \E v \in DOMAIN valves :
       /\ valves[v].set_position = 62000
       /\ control_valve_row(valves[v], 150000) = valves[v]
  /\ \E c \in DOMAIN compressors :
       /\ compressors[c].set_command = "OFF"
       /\ control_compressor_row(compressors[c], "ON", Some(20000)) = compressors[c]

ScanError(input) ==
  input.setpoint - (IF input.reading.given THEN input.reading.value ELSE 500)

RECURSIVE ErrorSum(_, _)
ErrorSum(inputs, n) ==
  IF n = 0 THEN 0 ELSE ErrorSum(inputs, n - 1) + ScanError(inputs[n])

\* C24: in every step n of the loop's controller bank the PID output is
\* kp * error + ki * (sum of 0.1 * error over the steps up to n)
\* + kd * (error - error of step n-1) / 0.1.
C24_PidStatePersists ==
  \A n \in 1..Len(simulators.loop.inputs) :
    LET inputs == simulators.loop.inputs
        error == ScanError(inputs[n])
        last_error == IF n = 1 THEN 0 ELSE ScanError(inputs[n - 1])
    IN simulators.loop.outputs[n]["PID_OUTPUT"]
         = 100 * error + ErrorSum(inputs, n) + 10 * (error - last_error)

\* C22: a started run (its duration and time_step are positive) executes at
\* most ceil(duration / time_step) steps, and it leads to a state in which
\* its status is COMPLETED, FAILED or STOPPED and the running flag is false.
C22_RunTerminates ==
  /\ [](\A i \in DOMAIN threads :
         /\ runs[i].duration > 0 /\ runs[i].time_step > 0
         /\ threads[i].step <= StepsOf(runs[i]))
  /\ (Len(runs) >= 1) ~> (Len(runs) >= 1 /\ runs[1].status \in Terminal /\ ~running)

\* C22 witness: a run of duration 3 and time_step 2 that nothing stopped
\* is COMPLETED after 2 steps, and the running flag is false.
C22_Witness ==
  /\ Len(runs) = 1
  /\ runs[1].duration = 3
  /\ runs[1].status = "COMPLETED"
  /\ runs[1].total_steps = 2
  /\ threads[1].stopped = "no"
  /\ threads[1].pc = "done"
  /\ ~running

C27_CompressorTargetResolution ==
  \A i \in DOMAIN threads :
    threads[i].traceback # None =>
      LET tb == threads[i].traceback
          bound == network.plc_type = "COMPRESSOR_MANAGEMENT"
      IN /\ tb.set_command # "AUTO" =>
              /\ tb.target_status = tb.set_command
              /\ tb.target_speed = IF tb.set_speed >= 0 THEN tb.set_speed ELSE 0
              /\ tb.control_source = "Manual"
         /\ (tb.set_command = "AUTO" /\ bound) =>
              /\ tb.control_source = "PLC"
              /\ tb.target_status =
                   IF tb.plc_outputs["COMPRESSOR_COMMAND"] = "ON" THEN "ON" ELSE "OFF"
              /\ tb.target_speed = tb.plc_outputs["COMPRESSOR_TARGET_SPEED"]
         /\ (tb.set_command = "AUTO" /\ ~bound) =>
              /\ tb.control_source = "Default"
              /\ tb.target_status = "OFF"
              /\ tb.target_speed = 0

\* C27 witness: the controller, scanned while the compressor was AUTO at
\* 60 bar, put out OFF; the command ON at 2500 RPM arrived before the
\* compressor stage, which resolved ON at 2500 RPM.
C27_Witness ==
  \E i \in DOMAIN threads :
    /\ threads[i].traceback # None
    /\ network.plc_type = "COMPRESSOR_MANAGEMENT"
    /\ threads[i].traceback.plc_outputs["COMPRESSOR_COMMAND"] = "OFF"
    /\ threads[i].traceback.set_command = "ON"
    /\ threads[i].traceback.set_speed = 2500
    /\ threads[i].traceback.target_status = "ON"
    /\ threads[i].traceback.target_speed = 2500

\* The speed one step of the ramp computes: toward the target by
\* 1000 * time_step RPM, or the target when the gap is not larger.
RampedSpeed(speed, target_speed, time_step) ==
  IF Abs(target_speed - speed) > SpeedChangeRate * time_step
  THEN IF target_speed > speed
       THEN speed + SpeedChangeRate * time_step
       ELSE speed - SpeedChangeRate * time_step
  ELSE target_speed

\* C28: when the compressor stage of a step has run for a compressor whose
\* ramped speed, clamped to [0, max_speed], is more than 100 RPM from its
\* speed, the stored speed is that ramped and clamped speed.
C28_SpeedRamp ==
  \A i \in DOMAIN threads :
    threads[i].traceback # None =>
      LET tb == threads[i].traceback
          new_speed == Max(0, Min(tb.max_speed,
                         RampedSpeed(tb.speed, tb.target_speed, runs[i].time_step)))
      IN Abs(new_speed - tb.speed) > SpeedHysteresis
           => compressors[tb.compressor_id].speed = new_speed

\* C29: when the compressor stage of a step has run, the stored status is
\* the status the state machine computed if that differs from the status
\* read, and the status read otherwise.
C29_CompressorWriteBack ==
  \A i \in DOMAIN threads :
    threads[i].traceback # None =>
      compressors[threads[i].traceback.compressor_id].status
        = threads[i].traceback.new_status

C26_ValveHysteresis ==
  \A r \in ValveRecords :
    LET rec == threads[r.i].valve_data[r.v]
    IN /\ rec.position = IF Abs(rec.target - rec.position_before) <= PosHysteresis
                         THEN rec.position_before
                         ELSE rec.target
       /\ threads[r.i].pc = "compressors" => valves[r.v].position = rec.position

\* C26 witness: a target exactly 0.1 above the position left the stored
\* position at 50 percent.
C26_Witness ==
  \E r \in ValveRecords :
    /\ threads[r.i].pc = "compressors"
    /\ threads[r.i].valve_data[r.v].position_before = PosDefault
    /\ threads[r.i].valve_data[r.v].target = PosDefault + PosHysteresis
    /\ valves[r.v].position = PosDefault

\* C30: the controller stage of a step leaves the node, every valve row and
\* every compressor row as they were; what the controllers computed is in
\* the outputs handed to the step.
C30_ControllersOnlyReturnOutputs ==
  [][\A i \in DOMAIN threads :
       (threads[i].pc = "plcs" /\ threads'[i].pc # "plcs") =>
         /\ valves' = valves
         /\ compressors' = compressors
         /\ node' = node
         /\ threads'[i].pc = "valves" => threads'[i].plc_data # None]_vars

\* C30 witness: a pressure controller has put out a valve position other
\* than the valve's, and the valve row is as it was created.
C30_Witness ==
  \E i \in DOMAIN threads, v \in DOMAIN valves :
    /\ threads[i].pc = "valves"
    /\ threads[i].plc_data # None
    /\ "CONTROL_VALVE_POSITION" \in DOMAIN threads[i].plc_data
    /\ threads[i].plc_data["CONTROL_VALVE_POSITION"] # valves[v].position
    /\ valves[v] = [position |-> PosDefault, set_position |-> NoOverride]


\* C31: on a network with a compressor the compressor arbitration stage
\* returns in every step: no run of such a network ends on an exception that
\* the stage itself raised.
C31_CompressorStageCompletes ==
  \A i \in DOMAIN threads :
    network.compressor_node
      => ~(/\ threads[i].error = "NameError"
           /\ runs[i].status = "FAILED")

\* C32: once stop_simulation() has returned, the loop of a run that the stop
\* request hit begins no further step, whatever is started afterwards.
C32_StoppedLoopTakesNoStep ==
  [][\A i \in DOMAIN threads :
       (threads[i].stopped # "no" /\ stop_request.pc # "join")
         => ~(/\ threads[i].pc = "cond"
              /\ loop_condition(i)
              /\ threads'[i].pc # "cond")]_vars

\* C33: the loop of a run that no stop request hit and that met no step
\* error leaves line 303 only when step * time_step has reached duration:
\* the exit of another run's loop does not end it early.
C33_OtherLoopExitDoesNotEndRun ==
  [][\A i \in DOMAIN threads :
       (/\ threads[i].stopped = "no"
        /\ threads[i].pc = "cond"
        /\ threads'[i].pc = "done"
        /\ threads'[i].error = "")
         => threads[i].step = StepsOf(threads[i].simulation_run)]_vars


\* C34: start_simulation leaves the node's set_pressure and set_flow as the
\* operator configured them before the run.
C34_StartKeepsSetpoints ==
  [][Len(runs') > Len(runs)
       => /\ node'.set_pressure = node.set_pressure
          /\ node'.set_flow = node.set_flow]_vars


C38_OffTargetsZeroSpeed ==
  \A i \in DOMAIN threads :
    (threads[i].traceback # None /\ threads[i].traceback.set_command = "OFF")
      => threads[i].traceback.target_speed = 0


\* C36: if from some step of a run on the compressor stays under the manual
\* command ON with a target speed within [0, max_speed], its stored speed
\* eventually equals that target speed.
C36_SpeedReachesTarget ==
  \A sp \in RequestedSpeeds :
    <>[](/\ Len(runs) >= 1
         /\ \A c \in DOMAIN compressors :
              /\ compressors[c].set_command = "ON"
              /\ compressors[c].set_speed = sp)
      => <>(\A c \in DOMAIN compressors : compressors[c].speed = sp)

\* C37: when the compressor stage of a step has run, the step holds a
\* compressor_state record for every compressor, with the status and the
\* speed that the compressor has in the store.
C37_RecordMatchesStore ==
  \A i \in DOMAIN threads :
    threads[i].traceback # None
      => /\ threads[i].compressor_data # None
         /\ \A c \in DOMAIN compressors :
              /\ threads[i].compressor_data[c].status = compressors[c].status
              /\ threads[i].compressor_data[c].speed = compressors[c].speed

====
